---- MODULE Spec2Model ----
(***************************************************************************)
(* The question-resolution pipeline of the Dubai FAQ agent:                *)
(* WorkflowManager.process_question (workflow_manager.py) driving the four *)
(* steps of DubaiFAQService (faq_functions.py), either through the         *)
(* LangGraph graph or through SimpleWorkflow.invoke.                       *)
(*                                                                         *)
(* Texts that the code takes apart (questions: strip, lower) are sequences *)
(* of one-character strings; texts it only stores, compares or formats     *)
(* (answers, error details) are strings.  An Optional value is None ({})   *)
(* or Some(v) ({v}).  Similarity scores are in thousandths.                *)
(***************************************************************************)
EXTENDS Integers, Sequences, FiniteSets, TLC

\* ---------------------------------------------------------------- bounds
MaxLen == 2          \* longest message the front end receives
MaxRows == 2         \* most rows in the faqs table
MaxRuns == 4         \* most runs of load_sql.py
MaxLookups == 3      \* most store lookups in a row

\* ------------------------------------------------------- Optional values
None == {}
Some(v) == {v}
Get(o) == CHOOSE v \in o : TRUE

\* ------------------------------------------------------- input universes
Alphabet == {"a", "A", " "}
Texts == UNION {[1..n -> Alphabet] : n \in 0..MaxLen}

\* question texts the provisioning may have stored: another case of the
\* letters asked, and a text with trailing whitespace (which no trimmed
\* question equals)
StoredQuestions == {<<"A">>, <<"a", " ">>}
StoredAnswers == {"", "s1"}
Rows == [question : StoredQuestions, answer : StoredAnswers]
\* tables of up to MaxRows rows, no row entered twice
Stores == {t \in UNION {[1..n -> Rows] : n \in 0..MaxRows} :
              \A i, j \in DOMAIN t : t[i] = t[j] => i = j}

ExcDetails == {"timeout", "quota"}
\* str(e) of an exception that leaves the workflow invocation
WorkflowExcDetails == {"recursion limit"}
\* str(e) of an exception raised in process_user_message itself
FrontEndExcDetails == {"executor shut down"}
Scores == {749, 750, 810}
IndexQuestions == {<<"A">>}
IndexAnswers == {"", "v1"}
Matches == [score : Scores, question : IndexQuestions, answer : IndexAnswers]
GeneratedTexts == {"", "g1"}

\* what the sqlite3 calls of one lookup do: run, or raise
SqlOutcomes == [kind : {"ok"}, detail : {""}]
                 \cup [kind : {"raise"}, detail : ExcDetails]
\* what encode + pinecone_index.query do: a result with top_k = 1 matches, or raise
VectorOutcomes == [kind : {"ok"}, matches : {<<>>} \cup {<<m>> : m \in Matches}, detail : {""}]
                    \cup [kind : {"raise"}, matches : {<<>>}, detail : ExcDetails]
\* what generate_content + response.text do: a text, or raise
LlmOutcomes == [kind : {"ok"}, text : GeneratedTexts, detail : {""}]
                 \cup [kind : {"raise"}, text : {""}, detail : ExcDetails]

\* ------------------------------------------------------------- constants
SIMILARITY_THRESHOLD == 750

FallbackMessage ==
    "I apologize, but I'm unable to provide an answer at the moment. Please try again later."

\* ------------------------------------------------------- text conversions
IsSpace(c) == c = " "

RECURSIVE lstrip(_)
lstrip(s) == IF s # <<>> /\ IsSpace(Head(s)) THEN lstrip(Tail(s)) ELSE s

RECURSIVE rstrip(_)
rstrip(s) == IF s # <<>> /\ IsSpace(s[Len(s)])
             THEN rstrip(SubSeq(s, 1, Len(s) - 1)) ELSE s

strip(s) == rstrip(lstrip(s))

lower(s) == [i \in 1..Len(s) |-> IF s[i] = "A" THEN "a" ELSE s[i]]

\* ------------------------------------------------------------ the record
FAQState(q, a, sc, m, mq, e) ==
    [question |-> q, answer |-> a, similarity_score |-> sc,
     method |-> m, matched_question |-> mq, error |-> e]

\* Python truthiness of an Optional[str]: None and "" are falsy
Truthy(o) == o # None /\ o # Some("")

\* ------------------------------------------------------------- resolvers
\* the lookup comparing the stored text as it is, without lower()
fetchone_CaseSensitive(rows, param) ==
    LET hits == SelectSeq(rows, LAMBDA r : r.question = lower(param))
    IN  IF hits = <<>> THEN None ELSE Some(Head(hits).answer)

\* SELECT answer FROM faqs WHERE lower(question) = lower(?) ; fetchone()
fetchone(rows, param) ==
    LET hits == SelectSeq(rows, LAMBDA r : lower(r.question) = lower(param))
    IN  IF hits = <<>> THEN None ELSE Some(Head(hits).answer)

\* the structured lookup treating a failed access like the generative step does
query_sql_database_FatalFailure(state, rows, out) ==
    IF out.kind = "raise"
    THEN [state EXCEPT !.answer = Some("SQL search failed: " \o out.detail),
                       !.method = Some("error"),
                       !.error = Some("SQL search failed: " \o out.detail)]
    ELSE LET result == fetchone(rows, strip(state.question))
         IN  IF result # None
             THEN [state EXCEPT !.answer = Some(Get(result)),
                                !.method = Some("sql_match")]
             ELSE state

\* the structured lookup reporting a miss in error
query_sql_database_ErrorOnMiss(state, rows, out) ==
    IF out.kind = "raise"
    THEN [state EXCEPT !.error = Some("SQL search failed: " \o out.detail)]
    ELSE LET result == fetchone(rows, strip(state.question))
         IN  IF result # None
             THEN [state EXCEPT !.answer = Some(Get(result)),
                                !.method = Some("sql_match")]
             ELSE [state EXCEPT !.error = Some("SQL search failed: no match")]

query_sql_database(state, rows, out) ==
    IF out.kind = "raise"
    THEN [state EXCEPT !.error = Some("SQL search failed: " \o out.detail)]
    ELSE LET result == fetchone(rows, strip(state.question))
         IN  IF result # None
             THEN [state EXCEPT !.answer = Some(Get(result)),
                                !.method = Some("sql_match")]
             ELSE state

\* the semantic lookup accepting only scores strictly above the threshold
search_vector_database_StrictlyAbove(state, out) ==
    IF state.answer # None THEN state
    ELSE IF out.kind = "raise"
    THEN [state EXCEPT !.error = Some("Vector search failed: " \o out.detail)]
    ELSE IF out.matches # <<>> /\ Len(out.matches) > 0
    THEN LET best_match == out.matches[1]
             similarity_score == best_match.score
         IN  IF similarity_score > SIMILARITY_THRESHOLD
             THEN [state EXCEPT !.answer = Some(best_match.answer),
                                !.similarity_score = Some(similarity_score),
                                !.method = Some("vector_match"),
                                !.matched_question = Some(best_match.question)]
             ELSE [state EXCEPT !.similarity_score = Some(similarity_score)]
    ELSE state

\* the semantic lookup accepting a candidate without recording its score
search_vector_database_NoScoreOnAccept(state, out) ==
    IF state.answer # None THEN state
    ELSE IF out.kind = "raise"
    THEN [state EXCEPT !.error = Some("Vector search failed: " \o out.detail)]
    ELSE IF out.matches # <<>> /\ Len(out.matches) > 0
    THEN LET best_match == out.matches[1]
             similarity_score == best_match.score
         IN  IF similarity_score >= SIMILARITY_THRESHOLD
             THEN [state EXCEPT !.answer = Some(best_match.answer),
                                !.method = Some("vector_match"),
                                !.matched_question = Some(best_match.question)]
             ELSE [state EXCEPT !.similarity_score = Some(similarity_score)]
    ELSE state

\* the semantic lookup reporting an empty result in error
search_vector_database_ErrorOnEmpty(state, out) ==
    IF state.answer # None THEN state
    ELSE IF out.kind = "raise"
    THEN [state EXCEPT !.error = Some("Vector search failed: " \o out.detail)]
    ELSE IF out.matches # <<>> /\ Len(out.matches) > 0
    THEN LET best_match == out.matches[1]
             similarity_score == best_match.score
         IN  IF similarity_score >= SIMILARITY_THRESHOLD
             THEN [state EXCEPT !.answer = Some(best_match.answer),
                                !.similarity_score = Some(similarity_score),
                                !.method = Some("vector_match"),
                                !.matched_question = Some(best_match.question)]
             ELSE [state EXCEPT !.similarity_score = Some(similarity_score)]
    ELSE [state EXCEPT !.error = Some("Vector search failed: no matches")]

\* the semantic lookup naming the candidate's question on rejection too
search_vector_database_MatchedOnReject(state, out) ==
    IF state.answer # None THEN state
    ELSE IF out.kind = "raise"
    THEN [state EXCEPT !.error = Some("Vector search failed: " \o out.detail)]
    ELSE IF out.matches # <<>> /\ Len(out.matches) > 0
    THEN LET best_match == out.matches[1]
             similarity_score == best_match.score
         IN  IF similarity_score >= SIMILARITY_THRESHOLD
             THEN [state EXCEPT !.answer = Some(best_match.answer),
                                !.similarity_score = Some(similarity_score),
                                !.method = Some("vector_match"),
                                !.matched_question = Some(best_match.question)]
             ELSE [state EXCEPT !.similarity_score = Some(similarity_score),
                                !.matched_question = Some(best_match.question)]
    ELSE state

\* the semantic lookup recording the score only of an accepted candidate
search_vector_database_SilentReject(state, out) ==
    IF state.answer # None THEN state
    ELSE IF out.kind = "raise"
    THEN [state EXCEPT !.error = Some("Vector search failed: " \o out.detail)]
    ELSE IF out.matches # <<>> /\ Len(out.matches) > 0
    THEN LET best_match == out.matches[1]
             similarity_score == best_match.score
         IN  IF similarity_score >= SIMILARITY_THRESHOLD
             THEN [state EXCEPT !.answer = Some(best_match.answer),
                                !.similarity_score = Some(similarity_score),
                                !.method = Some("vector_match"),
                                !.matched_question = Some(best_match.question)]
             ELSE state
    ELSE state

\* the semantic lookup treating a failed access like the generative step does
search_vector_database_FatalFailure(state, out) ==
    IF state.answer # None THEN state
    ELSE IF out.kind = "raise"
    THEN [state EXCEPT !.answer = Some("Vector search failed: " \o out.detail),
                       !.method = Some("error"),
                       !.error = Some("Vector search failed: " \o out.detail)]
    ELSE IF out.matches # <<>> /\ Len(out.matches) > 0
    THEN LET best_match == out.matches[1]
             similarity_score == best_match.score
         IN  IF similarity_score >= SIMILARITY_THRESHOLD
             THEN [state EXCEPT !.answer = Some(best_match.answer),
                                !.similarity_score = Some(similarity_score),
                                !.method = Some("vector_match"),
                                !.matched_question = Some(best_match.question)]
             ELSE [state EXCEPT !.similarity_score = Some(similarity_score)]
    ELSE state

search_vector_database(state, out) ==
    IF state.answer # None THEN state
    ELSE IF out.kind = "raise"
    THEN [state EXCEPT !.error = Some("Vector search failed: " \o out.detail)]
    ELSE IF out.matches # <<>> /\ Len(out.matches) > 0
    THEN LET best_match == out.matches[1]
             similarity_score == best_match.score
         IN  IF similarity_score >= SIMILARITY_THRESHOLD
             THEN [state EXCEPT !.answer = Some(best_match.answer),
                                !.similarity_score = Some(similarity_score),
                                !.method = Some("vector_match"),
                                !.matched_question = Some(best_match.question)]
             ELSE [state EXCEPT !.similarity_score = Some(similarity_score)]
    ELSE state

\* an apology that quotes the failure
_get_error_message_QuotesFailure(error) ==
    "I apologize, but I'm unable to generate an answer at the moment: " \o error

_get_error_message(error) ==
    "I apologize, but I'm unable to generate an answer at the moment. "
    \o "This could be due to a temporary service issue. Please try rephrasing "
    \o "your question or try again in a moment."

\* the generative step leaving method as it was on success
call_llm_for_answer_NoMethod(state, out) ==
    IF state.answer # None THEN state
    ELSE IF out.kind = "raise"
    THEN [state EXCEPT !.answer = Some(_get_error_message(out.detail)),
                       !.method = Some("error"),
                       !.error = Some("LLM generation failed: " \o out.detail)]
    ELSE [state EXCEPT !.answer = Some(out.text)]

\* the generative step clearing error on success
call_llm_for_answer_ClearsError(state, out) ==
    IF state.answer # None THEN state
    ELSE IF out.kind = "raise"
    THEN [state EXCEPT !.answer = Some(_get_error_message(out.detail)),
                       !.method = Some("error"),
                       !.error = Some("LLM generation failed: " \o out.detail)]
    ELSE [state EXCEPT !.answer = Some(out.text),
                       !.method = Some("llm_generated"),
                       !.error = None]

\* the generative step skipping only on a non-empty answer
call_llm_for_answer_TruthyGuard(state, out) ==
    IF Truthy(state.answer) THEN state
    ELSE IF out.kind = "raise"
    THEN [state EXCEPT !.answer = Some(_get_error_message(out.detail)),
                       !.method = Some("error"),
                       !.error = Some("LLM generation failed: " \o out.detail)]
    ELSE [state EXCEPT !.answer = Some(out.text),
                       !.method = Some("llm_generated")]

\* the generative step keeping the error an earlier resolver recorded
call_llm_for_answer_KeepsFirstError(state, out) ==
    IF state.answer # None THEN state
    ELSE IF out.kind = "raise"
    THEN [state EXCEPT !.answer = Some(_get_error_message(out.detail)),
                       !.method = Some("error"),
                       !.error = IF state.error # None THEN state.error
                                 ELSE Some("LLM generation failed: " \o out.detail)]
    ELSE [state EXCEPT !.answer = Some(out.text),
                       !.method = Some("llm_generated")]

call_llm_for_answer(state, out) ==
    IF state.answer # None THEN state
    ELSE IF out.kind = "raise"
    THEN [state EXCEPT !.answer = Some(_get_error_message(out.detail)),
                       !.method = Some("error"),
                       !.error = Some("LLM generation failed: " \o out.detail)]
    ELSE [state EXCEPT !.answer = Some(out.text),
                       !.method = Some("llm_generated")]

\* finalization replacing the answer and leaving method as it was
finalize_response_KeepsMethod(state) ==
    IF ~Truthy(state.answer)
    THEN [state EXCEPT !.answer = Some(FallbackMessage)]
    ELSE state

\* finalization also replacing the answer of a record that carries an error
finalize_response_OnError(state) ==
    IF ~Truthy(state.answer) \/ state.error # None
    THEN [state EXCEPT !.answer = Some(FallbackMessage),
                       !.method = Some("fallback")]
    ELSE state

\* finalization replacing only an answer that is unset
finalize_response_NoneOnly(state) ==
    IF state.answer = None
    THEN [state EXCEPT !.answer = Some(FallbackMessage),
                       !.method = Some("fallback")]
    ELSE state

finalize_response(state) ==
    IF ~Truthy(state.answer)
    THEN [state EXCEPT !.answer = Some(FallbackMessage),
                       !.method = Some("fallback")]
    ELSE state

\* --------------------------------------------------------------- routing
\* the edge after the structured lookup leaving the chain on an error
should_search_vector_db_StopOnError(state) ==
    IF state.answer # None \/ state.error # None
    THEN "finalize_response" ELSE "search_vector_database"

should_search_vector_db(state) ==
    IF state.answer # None THEN "finalize_response" ELSE "search_vector_database"

\* the edge after the semantic lookup leading to the generative step always
should_use_llm_Always(state) == "call_llm_for_answer"

\* the edge after the semantic lookup leading back to it while no answer is set
should_use_llm_Retry(state) ==
    IF state.answer # None THEN "finalize_response" ELSE "search_vector_database"

should_use_llm(state) ==
    IF state.answer # None THEN "finalize_response" ELSE "call_llm_for_answer"

\* step 3 testing the answer for truth instead of None
SimpleAfterVector_Truthy(state) ==
    IF ~Truthy(state.answer) THEN "call_llm_for_answer" ELSE "finalize_response"

\* SimpleWorkflow.invoke, step 3 onwards: the test before the generative call
SimpleAfterVector(state) ==
    IF state.answer = None THEN "call_llm_for_answer" ELSE "finalize_response"

\* step 2 run without its test
SimpleAfterSql_NoTest(state) == "search_vector_database"

\* SimpleWorkflow.invoke, step 2 onwards: the test before the semantic lookup
SimpleAfterSql(state) ==
    IF state.answer = None THEN "search_vector_database" ELSE SimpleAfterVector(state)

\* ------------------------------------------------------------- front end
\* the texts of app.py, without their pictographs
PromptMessage == "Please ask a question about Dubai, and I'll be happy to help!"

UnexpectedErrorMessage(e) ==
    "**Unexpected Error**\n\n"
    \o "I encountered an unexpected error while processing your question: " \o e
    \o "\n\nPlease try asking your question again, or try rephrasing it differently."

\* a question as one string
RECURSIVE Join(_)
Join(s) == IF s = <<>> THEN "" ELSE Head(s) \o Join(Tail(s))

\* f"{similarity_score:.1%}", the score being in thousandths
Percent(score) == ToString(score \div 10) \o "." \o ToString(score % 10) \o "%"

format_response(result) ==
    LET method == result.method
        answer == IF result.answer = None THEN "None" ELSE Get(result.answer)
    IN  IF method = Some("sql_match")
        THEN "**Found in Database**\n\n" \o answer
        ELSE IF method = Some("vector_match")
        THEN LET similarity_score == Get(result.similarity_score)
                 matched_question == result.matched_question
                 user_question == result.question
             IN  "**Found in FAQ Database** (Match: " \o Percent(similarity_score)
                 \o ")\n\n" \o answer
                 \o (IF matched_question # None /\ Get(matched_question) # <<>>
                        /\ lower(Get(matched_question)) # lower(user_question)
                     THEN "\n\n*This answer is for: \"" \o Join(Get(matched_question))
                          \o "\"*"
                     ELSE "")
        ELSE IF method = Some("llm_generated")
        THEN "**AI Generated Response**\n\n" \o answer
        ELSE IF method = Some("error")
        THEN "**Service Issue**\n\n" \o answer
             \o "\n\n**Troubleshooting:**\n"
             \o "- Check your internet connection\n"
             \o "- Try rephrasing your question\n"
             \o "- Wait a moment and try again"
        ELSE IF method = Some("fallback")
        THEN "**Fallback Response**\n\n" \o answer
        ELSE "**Response**\n\n" \o answer

\* ----------------------------------------------------------------- state
VARIABLES
    LANGGRAPH_AVAILABLE, \* which workflow _build_workflow built
    faqs,                \* the rows of the faqs table, in rowid order
    message,             \* the raw text the front end received last
    pc,                  \* the step the request is at
    state,               \* the request's FAQState record
    calls,               \* the steps invoked for this request, in order
    sqlOut, vecOut, llmOut, \* Optional: what each external call did
    raised,              \* Optional: detail of an exception that escaped invoke
    writes,              \* the assignments to answer, in order: [step, value]
    reply,               \* Optional: the string process_user_message returned last
    requests,            \* the process_question calls running in executor threads
    connections,         \* how many sqlite3 connections are open
    schema,              \* the tables of dubai_faq.db
    pending,             \* rows inserted by a transaction not yet committed
    runs                 \* how each run of load_sql.py so far ended

vars == <<LANGGRAPH_AVAILABLE, faqs, message, pc, state, calls, sqlOut, vecOut, llmOut,
          raised, writes, reply, requests, connections, schema, pending, runs>>

Nodes == {"query_sql_database", "search_vector_database",
          "call_llm_for_answer", "finalize_response"}

NoRecord == FAQState(<<>>, None, None, None, None, None)

Init ==
    /\ LANGGRAPH_AVAILABLE \in BOOLEAN
    /\ faqs \in Stores
    /\ message = <<>>
    /\ pc = "idle"
    /\ state = NoRecord
    /\ calls = <<>>
    /\ sqlOut = None /\ vecOut = None /\ llmOut = None
    /\ raised = None
    /\ writes = <<>>
    /\ reply = None
    /\ requests = <<>>
    /\ connections = 0
    /\ schema = {"faqs"} /\ pending = <<>> /\ runs = <<>>

\* the assignments to answer a step made
Logged(step, old, new) ==
    IF new.answer # old.answer
    THEN Append(writes, [step |-> step, value |-> new.answer])
    ELSE writes

\* process_question up to the workflow's first node
process_question(question) ==
    /\ state' = FAQState(question, None, None, None, None, None)
    /\ pc' = "query_sql_database"

\* the front end handing every message to process_question, untrimmed
process_user_message_NoCheck(message_content) ==
    /\ pc = "idle"
    /\ message' = message_content
    /\ process_question(message_content) /\ reply' = None
    /\ calls' = <<>>
    /\ sqlOut' = None /\ vecOut' = None /\ llmOut' = None
    /\ raised' = None
    /\ writes' = <<>>
    /\ UNCHANGED <<LANGGRAPH_AVAILABLE, faqs>>
    /\ UNCHANGED <<requests, connections, schema, pending, runs>>

\* process_user_message: clean the input, answer an empty one with the
\* prompt, hand anything else to process_question
process_user_message(message_content) ==
    /\ pc = "idle"
    /\ message' = message_content
    /\ LET user_question == strip(message_content)
       IN  IF user_question = <<>>
           THEN pc' = "idle" /\ state' = NoRecord /\ reply' = Some(PromptMessage)
           ELSE process_question(user_question) /\ reply' = None
    /\ calls' = <<>>
    /\ sqlOut' = None /\ vecOut' = None /\ llmOut' = None
    /\ raised' = None
    /\ writes' = <<>>
    /\ UNCHANGED <<LANGGRAPH_AVAILABLE, faqs>>
    /\ UNCHANGED <<requests, connections, schema, pending, runs>>

QuerySqlDatabase(out) ==
    /\ pc = "query_sql_database"
    /\ LET new == query_sql_database(state, faqs, out)
       IN  /\ state' = new
           /\ writes' = Logged("query_sql_database", state, new)
           /\ pc' = IF LANGGRAPH_AVAILABLE THEN should_search_vector_db(new)
                    ELSE SimpleAfterSql(new)
    /\ calls' = Append(calls, "query_sql_database")
    /\ sqlOut' = Some(out)
    /\ UNCHANGED <<LANGGRAPH_AVAILABLE, faqs, message, vecOut, llmOut, raised>>
    /\ UNCHANGED <<reply, requests, connections, schema, pending, runs>>

SearchVectorDatabase(out) ==
    /\ pc = "search_vector_database"
    /\ LET new == search_vector_database(state, out)
       IN  /\ state' = new
           /\ writes' = Logged("search_vector_database", state, new)
           /\ pc' = IF LANGGRAPH_AVAILABLE THEN should_use_llm(new)
                    ELSE SimpleAfterVector(new)
    /\ calls' = Append(calls, "search_vector_database")
    /\ vecOut' = Some(out)
    /\ UNCHANGED <<LANGGRAPH_AVAILABLE, faqs, message, sqlOut, llmOut, raised>>
    /\ UNCHANGED <<reply, requests, connections, schema, pending, runs>>

CallLlmForAnswer(out) ==
    /\ pc = "call_llm_for_answer"
    /\ LET new == call_llm_for_answer(state, out)
       IN  /\ state' = new
           /\ writes' = Logged("call_llm_for_answer", state, new)
    /\ pc' = "finalize_response"
    /\ calls' = Append(calls, "call_llm_for_answer")
    /\ llmOut' = Some(out)
    /\ UNCHANGED <<LANGGRAPH_AVAILABLE, faqs, message, sqlOut, vecOut, raised>>
    /\ UNCHANGED <<reply, requests, connections, schema, pending, runs>>

FinalizeResponse ==
    /\ pc = "finalize_response"
    /\ LET new == finalize_response(state)
       IN  /\ state' = new
           /\ writes' = Logged("finalize_response", state, new)
    /\ pc' = "done"
    /\ calls' = Append(calls, "finalize_response")
    /\ UNCHANGED <<LANGGRAPH_AVAILABLE, faqs, message, sqlOut, vecOut, llmOut, raised>>
    /\ UNCHANGED <<reply, requests, connections, schema, pending, runs>>

\* the except branch without the failure description
WorkflowFailed_NoAnswer(question, e) ==
    FAQState(question, None, None, Some("error"), None, Some(e))

\* the except branch without the exception's detail in error
WorkflowFailed_NoError(question, e) ==
    FAQState(question, Some("Workflow execution failed: " \o e), None,
             Some("error"), None, None)

\* the record process_question builds in its except branch
WorkflowFailed(question, e) ==
    FAQState(question, Some("Workflow execution failed: " \o e), None,
             Some("error"), None, Some(e))

\* an exception leaves self.workflow.invoke: raised by the graph runtime or
\* outside a resolver's try block; process_question catches it
WorkflowRaises(e) ==
    /\ pc \in Nodes
    /\ state' = WorkflowFailed(state.question, e)
    /\ pc' = "done"
    /\ raised' = Some(e)
    /\ UNCHANGED <<LANGGRAPH_AVAILABLE, faqs, message, calls, sqlOut, vecOut, llmOut, writes>>
    /\ UNCHANGED <<reply, requests, connections, schema, pending, runs>>

\* process_question returns the record and the front end replies with it
\* formatted; nothing else of the request is kept
Return ==
    /\ pc = "done"
    /\ pc' = "idle"
    /\ reply' = Some(format_response(state))
    /\ state' = NoRecord
    /\ calls' = <<>>
    /\ sqlOut' = None /\ vecOut' = None /\ llmOut' = None
    /\ raised' = None
    /\ writes' = <<>>
    /\ UNCHANGED <<LANGGRAPH_AVAILABLE, faqs, message>>
    /\ UNCHANGED <<requests, connections, schema, pending, runs>>

\* the except branch of process_user_message: awaiting the executor or
\* formatting the result raised, and the front end replies with the failure
UnexpectedError(e) ==
    /\ pc = "done"
    /\ pc' = "idle"
    /\ reply' = Some(UnexpectedErrorMessage(e))
    /\ state' = NoRecord
    /\ calls' = <<>>
    /\ sqlOut' = None /\ vecOut' = None /\ llmOut' = None
    /\ raised' = None
    /\ writes' = <<>>
    /\ UNCHANGED <<LANGGRAPH_AVAILABLE, faqs, message>>
    /\ UNCHANGED <<requests, connections, schema, pending, runs>>

Next ==
    \/ \E m \in Texts : process_user_message(m)
    \/ \E out \in SqlOutcomes : QuerySqlDatabase(out)
    \/ \E out \in VectorOutcomes : SearchVectorDatabase(out)
    \/ \E out \in LlmOutcomes : CallLlmForAnswer(out)
    \/ FinalizeResponse
    \/ \E e \in WorkflowExcDetails : WorkflowRaises(e)
    \/ Return
    \/ \E e \in FrontEndExcDetails : UnexpectedError(e)

Spec == Init /\ [][Next]_vars

\* a step that was started ends: each external call returns or fails, and the
\* thread running the workflow is scheduled
StepsEnd ==
    /\ WF_vars(\E out \in SqlOutcomes : QuerySqlDatabase(out))
    /\ WF_vars(\E out \in VectorOutcomes : SearchVectorDatabase(out))
    /\ WF_vars(\E out \in LlmOutcomes : CallLlmForAnswer(out))
    /\ WF_vars(FinalizeResponse)

SpecLive == Init /\ [][Next]_vars /\ StepsEnd

\* ------------------------------------------- the resolvers called directly
\* A second specification: each resolver applied once to a record that may
\* already carry an answer, a score, a method or an error.

\* whether a call of the resolver reaches its external call
SqlLookupMade(record) == TRUE

VectorLookupMade(record) == record.answer = None

LlmCallMade(record) == record.answer = None

Records ==
    {FAQState(q, a, sc, m, mq, e) :
        q \in {t \in Texts : t # <<>> /\ strip(t) = t},
        a \in {None, Some(""), Some("earlier answer")},
        sc \in {None, Some(749)},
        m \in {None, Some("vector_match")},
        mq \in {None, Some(<<"A">>)},
        e \in {None, Some("SQL search failed: quota")}}

InitDirect ==
    /\ LANGGRAPH_AVAILABLE = FALSE
    /\ faqs \in Stores
    /\ message = <<>>
    /\ pc = "unit"
    /\ state \in Records
    /\ calls = <<>>
    /\ sqlOut = None /\ vecOut = None /\ llmOut = None
    /\ raised = None
    /\ writes = <<>>
    /\ reply = None
    /\ requests = <<>>
    /\ connections = 0
    /\ schema = {"faqs"} /\ pending = <<>> /\ runs = <<>>

DirectQuerySqlDatabase(out) ==
    /\ pc = "unit"
    /\ LET new == query_sql_database(state, faqs, out)
       IN  state' = new /\ writes' = Logged("query_sql_database", state, new)
    /\ sqlOut' = IF SqlLookupMade(state) THEN Some(out) ELSE None
    /\ calls' = <<"query_sql_database">>
    /\ pc' = "called"
    /\ UNCHANGED <<LANGGRAPH_AVAILABLE, faqs, message, vecOut, llmOut, raised>>
    /\ UNCHANGED <<reply, requests, connections, schema, pending, runs>>

DirectSearchVectorDatabase(out) ==
    /\ pc = "unit"
    /\ LET new == search_vector_database(state, out)
       IN  state' = new /\ writes' = Logged("search_vector_database", state, new)
    /\ vecOut' = IF VectorLookupMade(state) THEN Some(out) ELSE None
    /\ calls' = <<"search_vector_database">>
    /\ pc' = "called"
    /\ UNCHANGED <<LANGGRAPH_AVAILABLE, faqs, message, sqlOut, llmOut, raised>>
    /\ UNCHANGED <<reply, requests, connections, schema, pending, runs>>

DirectCallLlmForAnswer(out) ==
    /\ pc = "unit"
    /\ LET new == call_llm_for_answer(state, out)
       IN  state' = new /\ writes' = Logged("call_llm_for_answer", state, new)
    /\ llmOut' = IF LlmCallMade(state) THEN Some(out) ELSE None
    /\ calls' = <<"call_llm_for_answer">>
    /\ pc' = "called"
    /\ UNCHANGED <<LANGGRAPH_AVAILABLE, faqs, message, sqlOut, vecOut, raised>>
    /\ UNCHANGED <<reply, requests, connections, schema, pending, runs>>

DirectFinalizeResponse ==
    /\ pc = "unit"
    /\ LET new == finalize_response(state)
       IN  state' = new /\ writes' = Logged("finalize_response", state, new)
    /\ calls' = <<"finalize_response">>
    /\ pc' = "called"
    /\ UNCHANGED <<LANGGRAPH_AVAILABLE, faqs, message, sqlOut, vecOut, llmOut, raised>>
    /\ UNCHANGED <<reply, requests, connections, schema, pending, runs>>

NextDirect ==
    \/ \E out \in SqlOutcomes : DirectQuerySqlDatabase(out)
    \/ \E out \in VectorOutcomes : DirectSearchVectorDatabase(out)
    \/ \E out \in LlmOutcomes : DirectCallLlmForAnswer(out)
    \/ DirectFinalizeResponse

SpecDirect == InitDirect /\ [][NextDirect]_vars

\* ------------------------------------------------ the two workflows whole
\* initial_state of process_question
initial_state(question) == FAQState(question, None, None, None, None, None)

\* invoke of the compiled graph, for given outcomes of the external calls
LangGraphInvoke(initial, rows, so, vo, lo) ==
    LET s1 == query_sql_database(initial, rows, so)
    IN  IF should_search_vector_db(s1) = "finalize_response"
        THEN [calls |-> <<"query_sql_database", "finalize_response">>,
              state |-> finalize_response(s1)]
        ELSE LET s2 == search_vector_database(s1, vo)
             IN  IF should_use_llm(s2) = "finalize_response"
                 THEN [calls |-> <<"query_sql_database", "search_vector_database",
                                   "finalize_response">>,
                       state |-> finalize_response(s2)]
                 ELSE [calls |-> <<"query_sql_database", "search_vector_database",
                                   "call_llm_for_answer", "finalize_response">>,
                       state |-> finalize_response(call_llm_for_answer(s2, lo))]

\* SimpleWorkflow.invoke, for given outcomes of the external calls
SimpleWorkflowInvoke(initial, rows, so, vo, lo) ==
    LET s1 == query_sql_database(initial, rows, so)
        searched == SimpleAfterSql(s1) = "search_vector_database"
        s2 == IF searched THEN search_vector_database(s1, vo) ELSE s1
        generated == SimpleAfterVector(s2) = "call_llm_for_answer"
        s3 == IF generated THEN call_llm_for_answer(s2, lo) ELSE s2
    IN  [calls |-> <<"query_sql_database">>
                     \o (IF searched THEN <<"search_vector_database">> ELSE <<>>)
                     \o (IF generated THEN <<"call_llm_for_answer">> ELSE <<>>)
                     \o <<"finalize_response">>,
         state |-> finalize_response(s3)]

\* self.workflow.invoke
invoke(initial, rows, so, vo, lo) ==
    IF LANGGRAPH_AVAILABLE THEN LangGraphInvoke(initial, rows, so, vo, lo)
    ELSE SimpleWorkflowInvoke(initial, rows, so, vo, lo)

\* ----------------------------------------------------- concurrent requests
\* A third specification: two process_question calls submitted by
\* run_in_executor, their steps interleaved in any order.
Threads == {1, 2}

AskedConcurrently == {<<"a">>, <<"a", "a">>}

ConcurrentStores == {<<>>, <<[question |-> <<"A">>, answer |-> "s1"]>>}

ConcurrentSqlOutcomes == {o \in SqlOutcomes : o.detail # "quota"}

ConcurrentVectorOutcomes ==
    {o \in VectorOutcomes :
        /\ o.detail # "quota"
        /\ \A k \in DOMAIN o.matches : o.matches[k].answer = "v1"}

ConcurrentLlmOutcomes == {o \in LlmOutcomes : o.detail # "quota"}

NoRequest == [pc |-> "idle", state |-> NoRecord, calls |-> <<>>,
              sqlOut |-> None, vecOut |-> None, llmOut |-> None, raised |-> None]

InitConcurrent ==
    /\ LANGGRAPH_AVAILABLE \in BOOLEAN
    /\ faqs \in ConcurrentStores
    /\ message = <<>>
    /\ pc = "serving"
    /\ state = NoRecord
    /\ calls = <<>>
    /\ sqlOut = None /\ vecOut = None /\ llmOut = None
    /\ raised = None
    /\ writes = <<>>
    /\ reply = None
    /\ requests = [t \in Threads |-> NoRequest]
    /\ connections = 0
    /\ schema = {"faqs"} /\ pending = <<>> /\ runs = <<>>

\* every thread working on the record of the first call
RecordOf_Shared(reqs, t) == reqs[1].state

\* the record a step of the call in thread t is handed: the call's own
RecordOf(reqs, t) == reqs[t].state

ThreadUnchanged ==
    UNCHANGED <<LANGGRAPH_AVAILABLE, faqs, message, pc, state, calls, sqlOut, vecOut,
                llmOut, raised, writes, reply, connections, schema, pending, runs>>

ThreadProcessQuestion(t, question) ==
    /\ requests[t].pc = "idle"
    /\ requests' = [requests EXCEPT ![t] =
                      [NoRequest EXCEPT !.pc = "query_sql_database",
                                        !.state = initial_state(question)]]
    /\ ThreadUnchanged

ThreadQuerySqlDatabase(t, out) ==
    /\ requests[t].pc = "query_sql_database"
    /\ LET new == query_sql_database(RecordOf(requests, t), faqs, out)
       IN  requests' = [requests EXCEPT
                          ![t].state = new,
                          ![t].pc = IF LANGGRAPH_AVAILABLE
                                    THEN should_search_vector_db(new)
                                    ELSE SimpleAfterSql(new),
                          ![t].calls = Append(@, "query_sql_database"),
                          ![t].sqlOut = Some(out)]
    /\ ThreadUnchanged

ThreadSearchVectorDatabase(t, out) ==
    /\ requests[t].pc = "search_vector_database"
    /\ LET new == search_vector_database(RecordOf(requests, t), out)
       IN  requests' = [requests EXCEPT
                          ![t].state = new,
                          ![t].pc = IF LANGGRAPH_AVAILABLE THEN should_use_llm(new)
                                    ELSE SimpleAfterVector(new),
                          ![t].calls = Append(@, "search_vector_database"),
                          ![t].vecOut = Some(out)]
    /\ ThreadUnchanged

ThreadCallLlmForAnswer(t, out) ==
    /\ requests[t].pc = "call_llm_for_answer"
    /\ requests' = [requests EXCEPT
                      ![t].state = call_llm_for_answer(RecordOf(requests, t), out),
                      ![t].pc = "finalize_response",
                      ![t].calls = Append(@, "call_llm_for_answer"),
                      ![t].llmOut = Some(out)]
    /\ ThreadUnchanged

ThreadFinalizeResponse(t) ==
    /\ requests[t].pc = "finalize_response"
    /\ requests' = [requests EXCEPT
                      ![t].state = finalize_response(RecordOf(requests, t)),
                      ![t].pc = "done",
                      ![t].calls = Append(@, "finalize_response")]
    /\ ThreadUnchanged

ThreadWorkflowRaises(t, e) ==
    /\ requests[t].pc \in Nodes
    /\ requests' = [requests EXCEPT
                      ![t].state = WorkflowFailed(requests[t].state.question, e),
                      ![t].pc = "done",
                      ![t].raised = Some(e)]
    /\ ThreadUnchanged

NextConcurrent ==
    \/ \E t \in Threads, q \in AskedConcurrently : ThreadProcessQuestion(t, q)
    \/ \E t \in Threads, out \in ConcurrentSqlOutcomes : ThreadQuerySqlDatabase(t, out)
    \/ \E t \in Threads, out \in ConcurrentVectorOutcomes : ThreadSearchVectorDatabase(t, out)
    \/ \E t \in Threads, out \in ConcurrentLlmOutcomes : ThreadCallLlmForAnswer(t, out)
    \/ \E t \in Threads : ThreadFinalizeResponse(t)
    \/ \E t \in Threads, e \in WorkflowExcDetails : ThreadWorkflowRaises(t, e)

SpecConcurrent == InitConcurrent /\ [][NextConcurrent]_vars

\* --------------------------------------------------------- load_sql.py
\* A fourth specification: the provisioning script run again and again on a
\* database file that does not exist at first.
faqs_to_insert ==
    << [question |-> "How tall is the Burj Khalifa?",
        answer |-> "The Burj Khalifa stands at a height of 828 meters (2,717 feet).",
        category |-> "Landmarks"],
       [question |-> "What is the currency of Dubai?",
        answer |-> "The currency used in Dubai is the UAE Dirham, commonly abbreviated as AED.",
        category |-> "General Info"],
       [question |-> "How long is a standard tourist visa for Dubai?",
        answer |-> "A standard tourist visa for Dubai is typically valid for 30 or 60 days, though options can vary based on nationality.",
        category |-> "Visas"],
       [question |-> "What year did the Dubai Metro open?",
        answer |-> "The Dubai Metro officially opened to the public on September 9, 2009.",
        category |-> "Transportation"] >>

\* the script inserting on every run
rows_to_insert_Always(count) == faqs_to_insert

\* SELECT COUNT(*) FROM faqs, and what executemany then inserts
rows_to_insert(count) == IF count = 0 THEN faqs_to_insert ELSE <<>>

InitSeed ==
    /\ LANGGRAPH_AVAILABLE = FALSE
    /\ faqs = <<>>
    /\ message = <<>>
    /\ pc = "shell"
    /\ state = NoRecord
    /\ calls = <<>>
    /\ sqlOut = None /\ vecOut = None /\ llmOut = None
    /\ raised = None
    /\ writes = <<>>
    /\ reply = None
    /\ requests = <<>>
    /\ connections = 0
    /\ schema = {} /\ pending = <<>> /\ runs = <<>>

SeedUnchanged ==
    UNCHANGED <<LANGGRAPH_AVAILABLE, message, state, calls, sqlOut, vecOut, llmOut,
                raised, writes, reply, requests>>

\* sqlite3.connect creates the file when it is missing
SeedConnect ==
    /\ pc = "shell" /\ Len(runs) < MaxRuns
    /\ pc' = "connected"
    /\ connections' = connections + 1
    /\ UNCHANGED <<faqs, schema, pending, runs>>
    /\ SeedUnchanged

\* sqlite3.connect raises: nothing was opened and the run is over
SeedConnectFails ==
    /\ pc = "shell" /\ Len(runs) < MaxRuns
    /\ runs' = Append(runs, "failed")
    /\ UNCHANGED <<pc, faqs, connections, schema, pending>>
    /\ SeedUnchanged

\* CREATE TABLE IF NOT EXISTS faqs: a statement outside any transaction
SeedCreateTable ==
    /\ pc = "connected"
    /\ schema' = schema \cup {"faqs"}
    /\ pc' = "created"
    /\ UNCHANGED <<faqs, connections, pending, runs>>
    /\ SeedUnchanged

\* the count and the conditional executemany, which opens a transaction
SeedInsert ==
    /\ pc = "created"
    /\ LET count == Len(faqs)
       IN  pending' = rows_to_insert(count)
    /\ pc' = "inserted"
    /\ UNCHANGED <<faqs, connections, schema, runs>>
    /\ SeedUnchanged

\* conn.commit()
SeedCommit ==
    /\ pc = "inserted"
    /\ faqs' = faqs \o pending
    /\ pending' = <<>>
    /\ pc' = "committed"
    /\ UNCHANGED <<connections, schema, runs>>
    /\ SeedUnchanged

\* a statement of the try block raises sqlite3.Error
SeedError ==
    /\ pc \in {"connected", "created", "inserted"}
    /\ pc' = "failed"
    /\ UNCHANGED <<faqs, connections, schema, pending, runs>>
    /\ SeedUnchanged

\* finally: conn.close(), which rolls back what was not committed
SeedClose ==
    /\ pc \in {"committed", "failed"}
    /\ pending' = <<>>
    /\ connections' = connections - 1
    /\ runs' = Append(runs, pc)
    /\ pc' = "shell"
    /\ UNCHANGED <<faqs, schema>>
    /\ SeedUnchanged

NextSeed ==
    \/ SeedConnect
    \/ SeedConnectFails
    \/ SeedCreateTable
    \/ SeedInsert
    \/ SeedCommit
    \/ SeedError
    \/ SeedClose

SpecSeed == InitSeed /\ [][NextSeed]_vars

\* ------------------------------------------------- the store connections
\* A fifth specification: query_sql_database called for one request after
\* another, with the sqlite3 connection each call opens.

\* what the sqlite3 calls of one lookup do: all of them run, or one raises,
\* sqlite3.connect itself or a call made on the open connection
StoreCallOutcomes ==
    [kind : {"ok"}, at : {""}, detail : {""}]
        \cup [kind : {"raise"}, at : {"connect", "execute"}, detail : ExcDetails]

\* the connections a call has opened and not closed when it returns:
\* conn.close() is reached only when execute and fetchone returned
connections_left(out) ==
    IF out.kind = "raise" /\ out.at = "execute" THEN 1 ELSE 0

InitStore ==
    /\ LANGGRAPH_AVAILABLE = FALSE
    /\ schema \in {{}, {"faqs"}}
    /\ faqs \in IF schema = {} THEN {<<>>} ELSE Stores
    /\ message = <<>>
    /\ pc = "store"
    /\ state = NoRecord
    /\ calls = <<>>
    /\ sqlOut = None /\ vecOut = None /\ llmOut = None
    /\ raised = None
    /\ writes = <<>>
    /\ reply = None
    /\ requests = <<>>
    /\ connections = 0
    /\ pending = <<>> /\ runs = <<>>

\* query_sql_database on the fresh record of a request; a SELECT on a
\* database without the faqs table raises
StoreLookup(question, out) ==
    /\ pc = "store" /\ Len(calls) < MaxLookups
    /\ "faqs" \notin schema => (out.kind = "raise" /\ out.at = "execute")
    /\ state' = query_sql_database(initial_state(question), faqs, out)
    /\ sqlOut' = Some(out)
    /\ calls' = Append(calls, "query_sql_database")
    /\ connections' = connections + connections_left(out)
    /\ UNCHANGED <<LANGGRAPH_AVAILABLE, faqs, message, pc, vecOut, llmOut, raised,
                   writes, reply, requests, schema, pending, runs>>

\* the runtime finalizes a Connection object nothing refers to any more:
\* when it does so, if at all, is up to the interpreter
ConnectionFinalized ==
    /\ pc = "store" /\ connections > 0
    /\ connections' = connections - 1
    /\ UNCHANGED <<LANGGRAPH_AVAILABLE, faqs, message, pc, state, calls, sqlOut, vecOut,
                   llmOut, raised, writes, reply, requests, schema, pending, runs>>

NextStore ==
    \/ \E q \in {t \in Texts : t # <<>> /\ strip(t) = t}, out \in StoreCallOutcomes :
          StoreLookup(q, out)
    \/ ConnectionFinalized

SpecStore == InitStore /\ [][NextStore]_vars

\* ============================================================ properties
Optional(S) == {None} \cup {Some(v) : v \in S}

TypeOKDirect == pc \in {"unit", "called"} /\ state.question \in Texts

TypeOK ==
    /\ pc \in Nodes \cup {"idle", "done"}
    /\ message \in Texts
    /\ state.question \in Texts
    /\ pc # "idle" => state.question = strip(message) /\ state.question # <<>>
    /\ state.similarity_score \in Optional(Scores)
    /\ state.matched_question \in Optional(IndexQuestions)
    /\ sqlOut \in Optional(SqlOutcomes)
    /\ vecOut \in Optional(VectorOutcomes)
    /\ llmOut \in Optional(LlmOutcomes)
    /\ raised \in Optional(WorkflowExcDetails)

\* the request is over and process_question is about to return state
Completed == pc = "done"

\* self.workflow.invoke returned its result: no exception escaped it
Returned == raised = None

\* C1: for every question and every combination of resolver outcomes the
\* record process_question returns has a non-null answer and a non-null
\* method.
C1_AnswerAndMethodSet ==
    Completed => state.answer # None /\ state.method # None

\* a non-empty question for which the store failed, the index failed and
\* the model call failed too
C1_Witness ==
    /\ Completed /\ state.question # <<>>
    /\ sqlOut # None /\ Get(sqlOut).kind = "raise"
    /\ vecOut # None /\ Get(vecOut).kind = "raise"
    /\ llmOut # None /\ Get(llmOut).kind = "raise"

\* C2: an exception that escapes the workflow invocation does not leave
\* process_question: the request completes with a record whose method is
\* error, whose error is the exception's detail and whose answer is the
\* failure description built from that detail; the other optional fields
\* are null.
C2_EscapedExceptionIsReturned ==
    raised # None =>
        /\ Completed
        /\ state.method = Some("error")
        /\ state.error = raised
        /\ state.answer = Some("Workflow execution failed: " \o Get(raised))
        /\ state.similarity_score = None /\ state.matched_question = None

\* the exception escaped after the semantic lookup had recorded a score
C2_Witness ==
    /\ raised # None /\ Completed
    /\ vecOut # None /\ Get(vecOut).matches # <<>>

\* ---------------------------------------------------------------- C3
SqlRan == sqlOut # None /\ Get(sqlOut).kind = "ok"

\* rows whose stored text, lowercased but not trimmed, equals the trimmed,
\* lowercased input
MatchingRows == {i \in DOMAIN faqs :
                    lower(faqs[i].question) = lower(strip(state.question))}

\* rows whose stored text, trimmed and lowercased, equals the trimmed,
\* lowercased input
NormalizedMatchingRows == {i \in DOMAIN faqs :
                    lower(strip(faqs[i].question)) = lower(strip(state.question))}

FirstOf(S) == CHOOSE i \in S : \A j \in S : i <= j

ResolverInvokedAfterSql ==
    \E k \in DOMAIN calls :
        calls[k] \in {"search_vector_database", "call_llm_for_answer"}

\* C3 as stated: if the lookup ran and some row's trimmed, lowercased
\* question equals the trimmed, lowercased input, the completed record has
\* method sql_match, the stored text of such a row as answer and no
\* similarity_score, and neither later resolver was invoked.
C3_AsStated ==
    (Completed /\ Returned /\ SqlRan /\ NormalizedMatchingRows # {}) =>
        /\ state.method = Some("sql_match")
        /\ \E i \in NormalizedMatchingRows : state.answer = Some(faqs[i].answer)
        /\ state.similarity_score = None
        /\ ~ResolverInvokedAfterSql

\* C3 amended: if the lookup ran and some row's lowercased (untrimmed)
\* question equals the trimmed, lowercased input, then neither later
\* resolver is invoked and similarity_score stays null; the completed record
\* has method sql_match and the first such row's answer when that answer is
\* not empty, and method fallback with the fixed fallback message when it
\* is empty.
C3_SqlMatchShortCircuits ==
    (Returned /\ SqlRan /\ MatchingRows # {}) =>
        /\ ~ResolverInvokedAfterSql
        /\ pc \in {"finalize_response", "done"}
        /\ state.similarity_score = None
        /\ Completed =>
              LET stored == faqs[FirstOf(MatchingRows)].answer
              IN  IF stored # ""
                  THEN state.method = Some("sql_match") /\ state.answer = Some(stored)
                  ELSE state.method = Some("fallback")
                       /\ state.answer = Some(FallbackMessage)

\* the input differs from the stored text in case and surrounding blanks,
\* two rows match and the first one's answer is used
C3_Witness ==
    /\ Completed /\ Returned /\ SqlRan
    /\ Cardinality(MatchingRows) = 2
    /\ message = <<" ", "a">>
    /\ faqs[1].answer # faqs[2].answer
    /\ state.method = Some("sql_match")

\* ---------------------------------------------------------------- C4
\* the index answered the semantic lookup with a candidate
CandidateReturned ==
    vecOut # None /\ Get(vecOut).kind = "ok" /\ Get(vecOut).matches # <<>>

Candidate == Get(vecOut).matches[1]

\* the structured lookup produced no answer: it found no row or it failed
NoStructuredMatch ==
    sqlOut # None /\ (Get(sqlOut).kind = "raise" \/ MatchingRows = {})

LlmInvoked == \E k \in DOMAIN calls : calls[k] = "call_llm_for_answer"

\* C4 as stated: with no structured match and a candidate whose score is at
\* least the threshold, the completed record has method vector_match, the
\* candidate's question as matched_question and the candidate's answer as
\* answer, and the Generative Resolver was not invoked.
C4_AsStated ==
    (Completed /\ Returned /\ NoStructuredMatch /\ CandidateReturned
       /\ Candidate.score >= SIMILARITY_THRESHOLD) =>
        /\ state.method = Some("vector_match")
        /\ state.matched_question = Some(Candidate.question)
        /\ state.answer = Some(Candidate.answer)
        /\ ~LlmInvoked

\* C4 amended: with no structured match and a candidate whose score is at
\* least the threshold (a score equal to it included), the Generative
\* Resolver is not invoked and matched_question and similarity_score are the
\* candidate's; the completed record has method vector_match and the
\* candidate's answer when that answer is not empty, and method fallback
\* with the fixed fallback message when it is empty.
C4_VectorMatchAccepted ==
    (Returned /\ NoStructuredMatch /\ CandidateReturned
       /\ Candidate.score >= SIMILARITY_THRESHOLD) =>
        /\ ~LlmInvoked
        /\ pc \in {"finalize_response", "done"}
        /\ state.matched_question = Some(Candidate.question)
        /\ state.similarity_score = Some(Candidate.score)
        /\ Completed =>
              IF Candidate.answer # ""
              THEN state.method = Some("vector_match")
                   /\ state.answer = Some(Candidate.answer)
              ELSE state.method = Some("fallback")
                   /\ state.answer = Some(FallbackMessage)

\* a candidate scoring exactly the threshold, for a question other than the
\* one asked, is accepted
C4_Witness ==
    /\ Completed /\ Returned /\ NoStructuredMatch /\ CandidateReturned
    /\ Candidate.score = SIMILARITY_THRESHOLD
    /\ Candidate.question # state.question
    /\ state.method = Some("vector_match")

\* ---------------------------------------------------------------- C5
AnswerWrittenBy(step) == \E k \in DOMAIN writes : writes[k].step = step

\* C5: whenever the index returns a candidate, similarity_score is that
\* candidate's score whatever the threshold decides; when the score is below
\* the threshold the method is not vector_match, the Semantic Resolver has
\* not written answer, and the Generative Resolver is the next step invoked.
C5_ScoreRecordedOnRejection ==
    (Returned /\ CandidateReturned) =>
        /\ state.similarity_score = Some(Candidate.score)
        /\ Candidate.score < SIMILARITY_THRESHOLD =>
              /\ state.method # Some("vector_match")
              /\ state.matched_question = None
              /\ ~AnswerWrittenBy("search_vector_database")
              /\ pc = "call_llm_for_answer" \/ LlmInvoked

\* a candidate just below the threshold was rejected and the model answered
C5_Witness ==
    /\ Completed /\ Returned /\ CandidateReturned
    /\ Candidate.score = SIMILARITY_THRESHOLD - 1
    /\ state.similarity_score = Some(SIMILARITY_THRESHOLD - 1)
    /\ state.method = Some("llm_generated")

\* ---------------------------------------------------------------- C6
\* the generative call was made and returned a text
Generated == llmOut # None /\ Get(llmOut).kind = "ok"

GenerativeFailed == llmOut # None /\ Get(llmOut).kind = "raise"

\* C6 as stated: with no structured match, no accepted semantic match and a
\* successful generative call, the completed record has method
\* llm_generated and the raw generated text as answer.
C6_AsStated ==
    (Completed /\ Returned /\ Generated) =>
        /\ state.method = Some("llm_generated")
        /\ state.answer = Some(Get(llmOut).text)

\* C6 amended: with no structured match, no accepted semantic match and a
\* successful generative call, the completed record has method
\* llm_generated and the raw generated text as answer when that text is not
\* empty; when it is empty the record has method fallback and the fixed
\* fallback message.
C6_GeneratedAnswer ==
    (Returned /\ Generated) =>
        /\ pc \in {"finalize_response", "done"}
        /\ pc = "finalize_response" =>
              /\ state.method = Some("llm_generated")
              /\ state.answer = Some(Get(llmOut).text)
        /\ Completed =>
              IF Get(llmOut).text # ""
              THEN state.method = Some("llm_generated")
                   /\ state.answer = Some(Get(llmOut).text)
              ELSE state.method = Some("fallback")
                   /\ state.answer = Some(FallbackMessage)

\* no row matched, the index had no candidate, the model produced a text
C6_Witness ==
    /\ Completed /\ Returned /\ Generated
    /\ SqlRan /\ MatchingRows = {}
    /\ vecOut # None /\ Get(vecOut).kind = "ok" /\ Get(vecOut).matches = <<>>
    /\ state.method = Some("llm_generated")
    /\ state.answer = Some("g1")

\* ---------------------------------------------------------------- C7
ApologyMessage ==
    "I apologize, but I'm unable to generate an answer at the moment. This could be due to a temporary service issue. Please try rephrasing your question or try again in a moment."

\* C7: when the generative call fails, the completed record has method
\* error, the one apology text as answer whatever the failure was, and the
\* failure's detail in error.
C7_GenerativeFailure ==
    (Completed /\ Returned /\ GenerativeFailed) =>
        /\ state.method = Some("error")
        /\ state.answer = Some(ApologyMessage)
        /\ state.error = Some("LLM generation failed: " \o Get(llmOut).detail)

\* the model call failed after the index had failed with another detail
C7_Witness ==
    /\ Completed /\ Returned /\ GenerativeFailed
    /\ vecOut # None /\ Get(vecOut).kind = "raise"
    /\ Get(vecOut).detail # Get(llmOut).detail
    /\ state.method = Some("error")

\* ---------------------------------------------------------------- C8
\* the store and the index both failed
Outage ==
    /\ sqlOut # None /\ Get(sqlOut).kind = "raise"
    /\ vecOut # None /\ Get(vecOut).kind = "raise"

EarlierFailures ==
    {Some("SQL search failed: " \o Get(sqlOut).detail),
     Some("Vector search failed: " \o Get(vecOut).detail)}

\* C8 as stated: when the structured and the semantic lookup both fail and
\* the generative call succeeds, the completed record has method
\* llm_generated and error holds the detail of an earlier, non-fatal failure.
C8_AsStated ==
    (Completed /\ Returned /\ Outage /\ Generated) =>
        /\ state.method = Some("llm_generated")
        /\ state.error \in EarlierFailures

\* C8 amended: when the structured and the semantic lookup both fail and the
\* generative call succeeds, error holds the detail of an earlier, non-fatal
\* failure (the semantic one) and the generated text is the answer with
\* method llm_generated when that text is not empty; when it is empty the
\* record has method fallback and the fixed fallback message.
C8_OutageThenGenerated ==
    (Completed /\ Returned /\ Outage /\ Generated) =>
        /\ state.error \in EarlierFailures
        /\ state.error = Some("Vector search failed: " \o Get(vecOut).detail)
        /\ state.method # Some("error")
        /\ IF Get(llmOut).text # ""
           THEN state.method = Some("llm_generated")
                /\ state.answer = Some(Get(llmOut).text)
           ELSE state.method = Some("fallback")
                /\ state.answer = Some(FallbackMessage)

\* store and index failed with different details and the model answered
C8_Witness ==
    /\ Completed /\ Returned /\ Outage /\ Generated
    /\ Get(sqlOut).detail # Get(vecOut).detail
    /\ state.method = Some("llm_generated")
    /\ state.error # None

\* ---------------------------------------------------------------- C9
Chains == {<<"query_sql_database", "finalize_response">>,
           <<"query_sql_database", "search_vector_database", "finalize_response">>,
           <<"query_sql_database", "search_vector_database",
             "call_llm_for_answer", "finalize_response">>}

IsPrefix(p, c) == Len(p) <= Len(c) /\ SubSeq(c, 1, Len(p)) = p

\* C9: the steps of a request form a linear chain with early exit: the steps
\* invoked so far, followed by the step about to be invoked, are the start of
\* Exact-Match, Semantic, Generative, finalization with the resolvers after
\* some point left out; the Semantic and the Generative Resolver are about
\* to be invoked only while answer is unset, and a resolver leaving answer
\* unset is followed by the next resolver; a request whose workflow returns
\* has run finalization exactly once and last, and no step twice.
C9_LinearChain ==
    /\ \E c \in Chains : IsPrefix(calls, c)
    /\ pc \in Nodes => \E c \in Chains : IsPrefix(Append(calls, pc), c)
    /\ pc \in {"search_vector_database", "call_llm_for_answer"} => state.answer = None
    /\ (pc = "finalize_response" /\ state.answer = None) =>
           calls[Len(calls)] = "call_llm_for_answer"
    /\ (Completed /\ Returned) => calls \in Chains
    /\ \A j, k \in DOMAIN calls : calls[j] = calls[k] => j = k

\* all four steps ran: no row matched, the candidate was rejected
C9_Witness ==
    /\ Completed /\ Returned /\ Len(calls) = 4
    /\ SqlRan /\ CandidateReturned

\* --------------------------------------------------------------- C10
Resolvers == {"query_sql_database", "search_vector_database", "call_llm_for_answer"}

\* a resolver has set answer in this request
ResolverSetAnswer == writes # <<>> /\ Head(writes).step \in Resolvers

\* no resolver was invoked after the one that set answer first
LaterResolversSkipped ==
    \A k \in DOMAIN calls :
        calls[k] = Head(writes).step =>
            \A j \in DOMAIN calls : j > k => calls[j] = "finalize_response"

\* C10 as stated: once a resolver has set answer, the later resolvers are
\* skipped and the completed record's answer is the value that resolver set.
C10_AsStated ==
    (Completed /\ Returned /\ ResolverSetAnswer) =>
        /\ LaterResolversSkipped
        /\ state.answer = Head(writes).value

\* C10 amended: once a resolver has set answer, the later resolvers are
\* skipped; a non-empty answer is never written again and is the answer of
\* the completed record; an empty answer is replaced once, by finalization,
\* with the fixed fallback message.
C10_FirstAnswerKept ==
    (Returned /\ ResolverSetAnswer) =>
        /\ LaterResolversSkipped
        /\ pc \in {"finalize_response", "done"}
        /\ IF Truthy(Head(writes).value) \/ ~Completed
           THEN Len(writes) = 1 /\ state.answer = Head(writes).value
           ELSE /\ Len(writes) = 2
                /\ writes[2] = [step |-> "finalize_response",
                                 value |-> Some(FallbackMessage)]
                /\ state.answer = Some(FallbackMessage)

\* the Semantic Resolver set a non-empty answer and it was returned
C10_Witness ==
    /\ Completed /\ Returned /\ ResolverSetAnswer
    /\ Head(writes).step = "search_vector_database"
    /\ state.answer = Some("v1")

\* --------------------------------------------------------------- C11
AllResolversInvoked ==
    \A r \in Resolvers : \E k \in DOMAIN calls : calls[k] = r

\* the step from finalize_response to done of a workflow that returns
FinalizationStep == pc = "finalize_response" /\ pc' = "done" /\ raised' = None

\* C11 as stated: a completed record has method fallback only when all three
\* resolvers were invoked and none of them had set answer.
C11_AsStated ==
    (Completed /\ Returned /\ state.method = Some("fallback")) =>
        AllResolversInvoked /\ ~ResolverSetAnswer

\* C11 amended: answer is never unset when finalization runs; a completed
\* record has method fallback exactly when a resolver had set answer to the
\* empty string, and finalization changes answer and method in that case
\* only, leaving every field as it was otherwise.
C11_FallbackOnlyForEmptyAnswer ==
    /\ [](pc = "finalize_response" => state.answer # None)
    /\ []((Completed /\ Returned) =>
            (state.method = Some("fallback")
               <=> (ResolverSetAnswer /\ Head(writes).value = Some(""))))
    /\ [][FinalizationStep =>
            IF state.answer = Some("")
            THEN state' = [state EXCEPT !.answer = Some(FallbackMessage),
                                        !.method = Some("fallback")]
            ELSE state' = state]_vars

\* the first matching row had an empty answer: fallback after two steps
C11_Witness ==
    /\ Completed /\ Returned /\ state.method = Some("fallback")
    /\ calls = <<"query_sql_database", "finalize_response">>

\* --------------------------------------------------------------- C12
\* C12 as stated: in every state similarity_score and matched_question are
\* both populated or both null.
C12_AsStated ==
    (state.similarity_score = None) <=> (state.matched_question = None)

\* a step that gives similarity_score or matched_question a new non-null value
ScoreOrMatchWritten ==
    \/ state'.similarity_score # None
         /\ state'.similarity_score # state.similarity_score
    \/ state'.matched_question # None
         /\ state'.matched_question # state.matched_question

\* C12 amended: in every state matched_question is populated only together
\* with similarity_score, while similarity_score alone is populated after a
\* candidate below the threshold; the two hold the returned candidate's score
\* and question, and only the Semantic Resolver's step gives either a value.
C12_ScoreAndMatch ==
    /\ [](state.matched_question # None => state.similarity_score # None)
    /\ [](state.similarity_score # None =>
            CandidateReturned /\ state.similarity_score = Some(Candidate.score))
    /\ [](state.matched_question # None =>
            /\ CandidateReturned /\ Candidate.score >= SIMILARITY_THRESHOLD
            /\ state.matched_question = Some(Candidate.question))
    /\ []((Returned /\ CandidateReturned /\ Candidate.score < SIMILARITY_THRESHOLD)
            => state.similarity_score # None /\ state.matched_question = None)
    /\ [][ScoreOrMatchWritten =>
            calls' = Append(calls, "search_vector_database")]_vars

\* an accepted candidate: both fields populated in the completed record
C12_Witness ==
    /\ Completed /\ Returned
    /\ state.similarity_score = Some(810)
    /\ state.matched_question = Some(<<"A">>)

\* --------------------------------------------------------------- C13
\* a resolver is called directly with the record in state
DirectCallOf(step) == pc = "unit" /\ calls' = <<step>>

\* C13: query_sql_database called with a record whose answer is already set
\* returns the record unchanged and makes no store lookup.
C13_AsStated ==
    [][(DirectCallOf("query_sql_database") /\ state.answer # None) =>
          state' = state /\ sqlOut' = None]_vars

\* --------------------------------------------------------------- C14
\* C14: search_vector_database and call_llm_for_answer called with a record
\* whose answer is already set (an empty string included) return the record
\* with every field unchanged and make no embedding, index or model call.
C14_SetAnswerSkipsLaterResolvers ==
    [][((DirectCallOf("search_vector_database") \/ DirectCallOf("call_llm_for_answer"))
          /\ state.answer # None) =>
          state' = state /\ vecOut' = None /\ llmOut' = None]_vars

\* the Generative Resolver was called with an empty answer and a stale error
C14_Witness ==
    /\ pc = "called" /\ calls = <<"call_llm_for_answer">>
    /\ state.answer = Some("") /\ state.error # None
    /\ llmOut = None

\* --------------------------------------------------------------- C15
\* C15: when the lookup runs and no row matches, query_sql_database leaves
\* every field of the record as it was: error and method included.
C15_MissLeavesRecord ==
    [][(DirectCallOf("query_sql_database")
          /\ sqlOut' # None /\ Get(sqlOut').kind = "ok" /\ MatchingRows = {}) =>
          state' = state]_vars

\* a miss in a non-empty table, on a record without answer
C15_Witness ==
    /\ pc = "called" /\ calls = <<"query_sql_database">>
    /\ SqlRan /\ MatchingRows = {} /\ faqs # <<>>
    /\ state.answer = None /\ state.method = None /\ state.error = None

\* --------------------------------------------------------------- C16
StoreFailed == sqlOut # None /\ Get(sqlOut).kind = "raise"

\* the step invoked right after the k-th one, or the one about to be invoked
StepAfter(k) == IF Len(calls) > k THEN calls[k + 1] ELSE pc

\* C16: when the store access fails, the Exact-Match Resolver returns the
\* record with error holding the failure's detail and answer and method
\* unset, and the next step of the pipeline is the Semantic Resolver.
C16_StoreFailureIsNotFatal ==
    (Returned /\ StoreFailed) =>
        /\ StepAfter(1) = "search_vector_database"
        /\ calls = <<"query_sql_database">> =>
              state = [NoRecord EXCEPT
                         !.question = state.question,
                         !.error = Some("SQL search failed: " \o Get(sqlOut).detail)]

\* the store failed and the Semantic Resolver then found an answer
C16_Witness ==
    /\ Completed /\ Returned /\ StoreFailed
    /\ state.method = Some("vector_match")
    /\ state.error = Some("SQL search failed: quota")

\* --------------------------------------------------------------- C17
IndexFailed == vecOut # None /\ Get(vecOut).kind = "raise"

NoCandidate == vecOut # None /\ Get(vecOut).kind = "ok" /\ Get(vecOut).matches = <<>>

\* error as the Exact-Match Resolver left it
ErrorAfterSql ==
    IF StoreFailed THEN Some("SQL search failed: " \o Get(sqlOut).detail) ELSE None

\* C17: when embedding or index access fails, or the index returns no
\* candidate, the Semantic Resolver returns the record with answer, method,
\* similarity_score and matched_question unset, with error set to the
\* failure's detail in the failure case and left as it was otherwise, and the
\* next step of the pipeline is the Generative Resolver.
C17_SemanticMissIsNotFatal ==
    (Returned /\ (IndexFailed \/ NoCandidate)) =>
        /\ StepAfter(2) = "call_llm_for_answer"
        /\ state.similarity_score = None /\ state.matched_question = None
        /\ ~AnswerWrittenBy("search_vector_database")
        /\ calls = <<"query_sql_database", "search_vector_database">> =>
              /\ state.answer = None /\ state.method = None
              /\ state.error =
                    IF IndexFailed
                    THEN Some("Vector search failed: " \o Get(vecOut).detail)
                    ELSE ErrorAfterSql

\* the store had failed, the index had no candidate, the model answered
C17_Witness ==
    /\ Completed /\ Returned /\ StoreFailed /\ NoCandidate
    /\ state.method = Some("llm_generated")
    /\ state.error = ErrorAfterSql

\* --------------------------------------------------------------- C18
Methods == {"sql_match", "vector_match", "llm_generated", "error", "fallback"}

\* the step that wrote the answer the record holds
Producer == writes[Len(writes)].step

\* C18: a completed record's method is one of sql_match, vector_match,
\* llm_generated, error, fallback, and it names the step that produced the
\* answer the record holds: sql_match iff the Exact-Match Resolver wrote it,
\* vector_match iff the Semantic Resolver did, llm_generated iff the
\* Generative Resolver's successful call did (error iff its failed call
\* did, fallback iff finalization did).
C18_MethodNamesProducer ==
    Completed =>
        /\ state.method \in {Some(m) : m \in Methods}
        /\ Returned =>
              /\ writes # <<>>
              /\ state.answer = writes[Len(writes)].value
              /\ state.method = Some("sql_match") <=> Producer = "query_sql_database"
              /\ state.method = Some("vector_match") <=> Producer = "search_vector_database"
              /\ state.method = Some("llm_generated")
                    <=> (Producer = "call_llm_for_answer" /\ Generated)
              /\ state.method = Some("error")
                    <=> (Producer = "call_llm_for_answer" /\ GenerativeFailed)
              /\ state.method = Some("fallback") <=> Producer = "finalize_response"

\* an empty generated text: the answer returned is finalization's
C18_Witness ==
    /\ Completed /\ Returned /\ Generated
    /\ Len(writes) = 2 /\ Producer = "finalize_response"
    /\ state.method = Some("fallback")

\* --------------------------------------------------------------- C19
\* C19 as stated: in a completed record matched_question is non-null exactly
\* when method is vector_match.
C19_AsStated ==
    Completed => (state.matched_question # None <=> state.method = Some("vector_match"))

\* C19 amended: in a completed record matched_question is non-null exactly
\* when the Semantic Resolver accepted a candidate; method is then
\* vector_match, or fallback when the accepted candidate's answer was empty;
\* method vector_match implies matched_question non-null.
C19_MatchedQuestionOnAcceptance ==
    Completed =>
        /\ state.matched_question # None
              <=> (Returned /\ CandidateReturned
                     /\ Candidate.score >= SIMILARITY_THRESHOLD)
        /\ state.method = Some("vector_match") => state.matched_question # None
        /\ state.matched_question # None =>
              state.method = IF Candidate.answer # "" THEN Some("vector_match")
                             ELSE Some("fallback")

\* an accepted candidate with an answer, after the store had failed
C19_Witness ==
    /\ Completed /\ Returned /\ StoreFailed
    /\ state.matched_question = Some(<<"A">>)
    /\ state.method = Some("vector_match")
    /\ state.answer = Some("v1")

\* --------------------------------------------------------------- C20
ErrorValues ==
    {None} \cup {Some(prefix \o d) :
                   prefix \in {"SQL search failed: ", "Vector search failed: ",
                               "LLM generation failed: "},
                   d \in ExcDetails}

\* the step that follows the steps invoked so far for a record whose answer
\* is set or not: error plays no part
StepFor(invoked, answerSet) ==
    IF invoked = <<>> THEN "query_sql_database"
    ELSE IF invoked[Len(invoked)] = "finalize_response" THEN "done"
    ELSE IF answerSet \/ invoked[Len(invoked)] = "call_llm_for_answer"
    THEN "finalize_response"
    ELSE IF invoked[Len(invoked)] = "query_sql_database"
    THEN "search_vector_database"
    ELSE "call_llm_for_answer"

\* two records agree on whether answer is set
SameAnswerPresence(r1, r2) == (r1.answer = None) <=> (r2.answer = None)

\* C20: error does not affect control flow: the step a request is at is
\* decided by the steps invoked so far and by whether answer is set; for the
\* record at a routing point and the same record with any other value of
\* error, the routing function and the test of SimpleWorkflow choose the
\* same next step, and the resolver about to run leaves answer set or unset
\* alike on both for every outcome of its external call, so the remaining
\* sequence of steps is the same.
C20_ErrorDoesNotRoute ==
    /\ (pc \in Nodes \cup {"done"} /\ Returned) => pc = StepFor(calls, state.answer # None)
    /\ \A e \in ErrorValues :
          LET other == [state EXCEPT !.error = e]
          IN  /\ calls = <<"query_sql_database">> =>
                    /\ should_search_vector_db(other) = should_search_vector_db(state)
                    /\ SimpleAfterSql(other) = SimpleAfterSql(state)
              /\ calls = <<"query_sql_database", "search_vector_database">> =>
                    /\ should_use_llm(other) = should_use_llm(state)
                    /\ SimpleAfterVector(other) = SimpleAfterVector(state)
              /\ pc = "query_sql_database" =>
                    \A out \in SqlOutcomes :
                        SameAnswerPresence(query_sql_database(other, faqs, out),
                                           query_sql_database(state, faqs, out))
              /\ pc = "search_vector_database" =>
                    \A out \in VectorOutcomes :
                        SameAnswerPresence(search_vector_database(other, out),
                                           search_vector_database(state, out))
              /\ pc = "call_llm_for_answer" =>
                    \A out \in LlmOutcomes :
                        SameAnswerPresence(call_llm_for_answer(other, out),
                                           call_llm_for_answer(state, out))
              /\ pc = "finalize_response" =>
                    SameAnswerPresence(finalize_response(other), finalize_response(state))

\* the chain reached the Generative Resolver with error set by both lookups
C20_Witness ==
    /\ pc = "call_llm_for_answer" /\ StoreFailed /\ IndexFailed
    /\ state.error # None /\ state.answer = None

\* --------------------------------------------------------------- C21
\* error as the last lookup that failed left it
ErrorAfterLookups ==
    IF IndexFailed THEN Some("Vector search failed: " \o Get(vecOut).detail)
    ELSE ErrorAfterSql

\* C21: a record has method error only if the generative call failed or
\* process_question caught an exception that escaped the workflow; when the
\* store access or the index access failed and the generative call did not,
\* the completed record carries the failure in error and its method is not
\* error.
C21_MethodErrorOnlyFromGenerativeOrEscape ==
    /\ state.method = Some("error") => (GenerativeFailed \/ raised # None)
    /\ (Completed /\ Returned /\ (StoreFailed \/ IndexFailed) /\ ~GenerativeFailed) =>
          /\ state.method \in {Some("vector_match"), Some("llm_generated"),
                                Some("fallback")}
          /\ state.error = ErrorAfterLookups

\* the store and the index both failed and the model answered
C21_Witness ==
    /\ Completed /\ Returned /\ StoreFailed /\ IndexFailed /\ Generated
    /\ state.method = Some("llm_generated")
    /\ state.error = Some("Vector search failed: timeout")

\* --------------------------------------------------------------- C22
\* an outcome for a call the request did not make: never looked at
Unused == [kind |-> "raise", matches |-> <<>>, text |-> "", detail |-> "unused"]

OutcomeOf(o) == IF o = None THEN Unused ELSE Get(o)

\* what the request of thread t returns when it runs alone, its external
\* calls doing what they did
Alone(t) ==
    invoke(initial_state(requests[t].state.question), faqs,
           OutcomeOf(requests[t].sqlOut), OutcomeOf(requests[t].vecOut),
           OutcomeOf(requests[t].llmOut))

\* C22: concurrent process_question calls are independent: each starts from
\* its own fresh record with every optional field null; under every
\* interleaving a step changes the record of its own request only, and the
\* record a request returns, with the steps it invoked, is the one it
\* produces when run alone with the same resolver outcomes; the faqs table
\* is never written while requests are processed.
C22_ConcurrentRequestsIndependent ==
    /\ [](\A t \in Threads :
            /\ (requests[t].pc = "query_sql_database") =>
                  requests[t].state = [NoRecord EXCEPT
                                         !.question = requests[t].state.question]
            /\ (requests[t].pc = "done" /\ requests[t].raised = None) =>
                  [calls |-> requests[t].calls, state |-> requests[t].state] = Alone(t))
    /\ [][\E t \in Threads : \A u \in Threads \ {t} : requests'[u] = requests[u]]_vars
    /\ [][faqs' = faqs]_vars

\* one request answered from the table while the other, submitted before it
\* finished, is still waiting for the model
C22_Witness ==
    /\ requests[1].pc = "done" /\ requests[1].state.method = Some("sql_match")
    /\ requests[1].state.question = <<"a">>
    /\ requests[2].pc = "call_llm_for_answer"
    /\ requests[2].state.question = <<"a", "a">>
    /\ requests[2].state.similarity_score = Some(749)

\* --------------------------------------------------------------- C23
\* t is m without its leading and trailing whitespace
IsTrimOf(t, m) ==
    /\ t # <<>> => ~IsSpace(t[1]) /\ ~IsSpace(t[Len(t)])
    /\ \E i \in 0..Len(m) :
          /\ i + Len(t) <= Len(m)
          /\ \A k \in 1..Len(m) :
                IF k > i /\ k <= i + Len(t) THEN m[k] = t[k - i] ELSE IsSpace(m[k])

\* C23: process_user_message trims the raw text; when nothing is left it
\* returns the prompt message and process_question is not invoked, otherwise
\* process_question is invoked with the trimmed text, so the question of a
\* request in progress is never empty and has no surrounding whitespace; and
\* process_user_message always ends by returning a string: the formatted
\* record, or the text built from the exception raised while processing.
C23_FrontEndGuardsThePipeline ==
    /\ [][pc = "idle" =>
            IF \A k \in DOMAIN message' : IsSpace(message'[k])
            THEN /\ pc' = "idle" /\ reply' = Some(PromptMessage)
                 /\ state' = NoRecord /\ calls' = <<>>
            ELSE /\ pc' = "query_sql_database" /\ reply' = None
                 /\ IsTrimOf(state'.question, message')]_vars
    /\ [](pc # "idle" => state.question # <<>> /\ IsTrimOf(state.question, message))
    /\ [][(pc # "idle" /\ pc' = "idle") =>
            \/ reply' = Some(format_response(state))
            \/ \E e \in FrontEndExcDetails : reply' = Some(UnexpectedErrorMessage(e))]_vars
    /\ []((pc = "idle" /\ message # <<>>) => reply # None)

\* a message of whitespace only was answered with the prompt
C23_Witness ==
    /\ pc = "idle" /\ message = <<" ", " ">>
    /\ reply = Some(PromptMessage)
    /\ state = NoRecord

\* --------------------------------------------------------------- C24
\* how many times the request invoked a step of the set S
Invocations(S) == Cardinality({k \in DOMAIN calls : calls[k] \in S})

\* C24: every process_question call terminates: whatever the resolvers'
\* outcomes, provided each external call returns or fails, a request that was
\* started reaches done; on the way no step is invoked twice, so there are at
\* most three resolver invocations and one finalization, and a workflow that
\* returns has ended with exactly one finalization.
C24_EveryRequestTerminates ==
    /\ [](/\ Invocations(Resolvers) <= 3
          /\ \A n \in Nodes : Invocations({n}) <= 1
          /\ (Completed /\ Returned) =>
                /\ Invocations({"finalize_response"}) = 1
                /\ calls[Len(calls)] = "finalize_response")
    /\ (pc \in Nodes ~> Completed)

\* the longest run: the three resolvers and the finalization
C24_Witness ==
    /\ Completed /\ Returned
    /\ Invocations(Resolvers) = 3 /\ Len(calls) = 4
    /\ GenerativeFailed

\* --------------------------------------------------------------- C25
\* a run of the script ended with its commit done
SomeRunCommitted == \E k \in DOMAIN runs : runs[k] = "committed"

\* no two rows of the table hold the same question
NoDuplicates ==
    \A i, j \in DOMAIN faqs : faqs[i].question = faqs[j].question => i = j

\* C25: the seeding script is idempotent: starting from an empty database,
\* after any number of runs the faqs table is empty or holds exactly the
\* sample rows, once each; the table is written only while it is empty, so
\* the rows are those of the first run that committed, and every later run
\* leaves them as they are.
C25_SeedingIsIdempotent ==
    /\ [](faqs \in {<<>>, faqs_to_insert} /\ NoDuplicates)
    /\ [](SomeRunCommitted => (faqs = faqs_to_insert /\ "faqs" \in schema))
    /\ []((faqs # <<>> /\ pc = "inserted") => pending = <<>>)
    /\ [][faqs' # faqs => (faqs = <<>> /\ faqs' = faqs_to_insert)]_vars
    /\ [][schema' # schema => (schema = {} /\ schema' = {"faqs"})]_vars

\* the script ran three times: the first run failed before its commit, the
\* second inserted the rows and the third found them
C25_Witness ==
    /\ runs = <<"failed", "committed", "committed">>
    /\ faqs = faqs_to_insert
    /\ pc = "shell" /\ connections = 0

\* --------------------------------------------------------------- C26
\* C26: the two pipeline implementations are equivalent: for every question
\* and every combination of resolver outcomes the LangGraph graph and
\* SimpleWorkflow.invoke invoke the same resolvers in the same order and
\* return records equal in every field; the request that ran, under either
\* implementation, invoked the steps and returned the record both compute.
C26_ImplementationsEquivalent ==
    /\ pc = "query_sql_database" =>
          \A so \in SqlOutcomes, vo \in VectorOutcomes, lo \in LlmOutcomes :
              LangGraphInvoke(state, faqs, so, vo, lo)
                  = SimpleWorkflowInvoke(state, faqs, so, vo, lo)
    /\ (Completed /\ Returned) =>
          LET ran == [calls |-> calls, state |-> state]
              initial == initial_state(state.question)
              so == OutcomeOf(sqlOut)
              vo == OutcomeOf(vecOut)
              lo == OutcomeOf(llmOut)
          IN  /\ ran = LangGraphInvoke(initial, faqs, so, vo, lo)
              /\ ran = SimpleWorkflowInvoke(initial, faqs, so, vo, lo)

\* SimpleWorkflow answered with an accepted candidate whose answer is empty:
\* the generative step was skipped, as the graph's edge does
C26_Witness ==
    /\ Completed /\ Returned /\ ~LANGGRAPH_AVAILABLE
    /\ CandidateReturned /\ Candidate.answer = "" /\ Candidate.score = 810
    /\ calls = <<"query_sql_database", "search_vector_database", "finalize_response">>

\* --------------------------------------------------------------- C27
\* the failure details of the resolvers that failed, in the order they ran
FailureDetails ==
    (IF StoreFailed THEN <<"SQL search failed: " \o Get(sqlOut).detail>> ELSE <<>>)
    \o (IF IndexFailed THEN <<"Vector search failed: " \o Get(vecOut).detail>> ELSE <<>>)
    \o (IF GenerativeFailed
        THEN <<"LLM generation failed: " \o Get(llmOut).detail>> ELSE <<>>)

\* C27: error is last-write-wins: while the workflow runs and when it has
\* returned, error is null if no resolver failed and otherwise holds the
\* detail of the last resolver that failed, and nothing of the earlier ones.
\* (That error is non-null in records with method vector_match and
\* llm_generated is shown by states reached: C16_Witness and C27_Witness.)
C27_ErrorIsLastFailure ==
    Returned =>
        state.error = IF FailureDetails = <<>> THEN None
                      ELSE Some(FailureDetails[Len(FailureDetails)])

\* the store and then the index failed and the model answered: error holds
\* the index failure only, in a record whose method is llm_generated
C27_Witness ==
    /\ Completed /\ Returned
    /\ FailureDetails = <<"SQL search failed: timeout", "Vector search failed: quota">>
    /\ state.method = Some("llm_generated") /\ state.answer = Some("g1")
    /\ state.error = Some("Vector search failed: quota")

\* --------------------------------------------------------------- C28
\* C28: the answer of every record process_question returns is a non-empty
\* string; when the answer a resolver set was the empty string, the record
\* returned holds the fixed fallback message instead, as it would for an
\* answer left unset.
C28_AnswerNeverEmpty ==
    /\ Completed =>
          /\ state.answer # None /\ Get(state.answer) # ""
          /\ (Returned /\ ResolverSetAnswer /\ Head(writes).value = Some("")) =>
                state.answer = Some(FallbackMessage)
    /\ pc = "finalize_response" =>
          finalize_response([state EXCEPT !.answer = Some("")])
              = finalize_response([state EXCEPT !.answer = None])

\* the index returned an accepted candidate whose answer is empty
C28_Witness ==
    /\ Completed /\ Returned
    /\ CandidateReturned /\ Candidate.answer = "" /\ Candidate.score = 750
    /\ state.matched_question # None
    /\ state.answer = Some(FallbackMessage)

\* --------------------------------------------------------------- C29
\* C29: every connection query_sql_database opens is closed before it
\* returns, on the hit, miss and failure paths alike: after any sequence of
\* lookups no connection is open.
C29_AsStated ==
    [][calls' # calls => connections' = connections]_vars

====
